---- MODULE Spec2Model ----
(***************************************************************************)
(* EPGStation: the recording event bus (src/model/event/RecordingEvent.ts), *)
(* the drop-check command line tool (src/DropCheck.ts), and the parts of    *)
(* the recording engine the specification describes around them (the       *)
(* per-reservation lifecycle and the continuity-counter drop analysis).    *)
(*                                                                         *)
(* Four specifications share the module's variables; each one moves only   *)
(* its own subsystem and leaves the others in their initial state:         *)
(*   SpecBus        RecordingEvent: set* registrations and emit* calls     *)
(*   SpecLifecycle  the per-reservation lifecycle state machine            *)
(*   SpecDrop       the per-channel continuity / drop accounting           *)
(*   SpecCli        DropCheck.run()                                        *)
(***************************************************************************)
EXTENDS Naturals, Integers, Sequences, FiniteSets, TLC

VARIABLES
    \* ---- RecordingEvent (the event bus) ----
    listeners,   \* event kind -> sequence of registered wrappers, in emitter order
    nReg,        \* number of set* calls made so far (the next wrapper's identity)
    busPc,       \* "idle": event loop between tasks; "task": emitter code running;
                 \* "emit": inside events.EventEmitter.emit
    cur,         \* the emit call in progress, or NoEmit
    emits,       \* history: the emit* calls made, in order
    micro,       \* the microtask queue (continuations of async wrappers), FIFO
    pendingCb,   \* wrappers awaiting a callback promise that is still pending
    started,     \* history: callback invocations, in the order their bodies began
    finished,    \* history: wrappers whose handling has completed
    logged,      \* history: wrappers that called this.log.system.error
    failedCb,    \* history: wrappers whose callback threw or whose promise rejected
    unhandled,   \* history: wrapper promises that rejected with nobody to catch
    returned,    \* history: emit calls that returned normally to the emitter
    threw,       \* history: emit calls that threw into the emitter
    \* ---- the recording lifecycle, per reservation ----
    maxRetry,    \* the configured maximum retry count
    lcState,     \* reservation -> lifecycle state
    retryCount,  \* reservation -> retry counter
    sessions,    \* reservation -> the live RecordingSessions (attempt numbers)
    nSessions,   \* reservation -> sessions created so far
    lcEvents,    \* reservation -> the lifecycle events emitted for it, in order
    \* ---- the stream integrity analysis, per channel identifier ----
    expected,    \* channel -> last observed continuity counter, -1 before the first
    errorCount,  \* channel -> cumulative error count
    dropCount,   \* channel -> cumulative drop count
    scrCount,    \* channel -> cumulative scrambling count
    table,       \* the channels that have an entry in the result table
    nFrames,     \* frames presented to the analyzer so far
    last,        \* history: the last frame analysed, with the channel's expected
                 \* counter and drop count before it
    sendCc,      \* sender: channel -> continuity counter of its next payload frame
    pendingLoss, \* history: channel -> payload frames lost since the last one delivered
    lostTotal,   \* history: channel -> payload frames lost in gaps closed so far
    nGaps,       \* history: the gaps (runs of lost frames) so far, over all channels
    wideGap,     \* history: channel -> some gap closed so far was longer than 14 frames
    \* ---- DropCheck (the command line tool) ----
    cliPc,       \* where the process is: "new", "init", "phase1", "catch1", "result",
                 \* "catch2", "done", "rejected", "warned", "finished", "exited", "crashed"
    p1,          \* the promise of run()'s first await: "pending", "resolved", "rejected"
    src,         \* readableStream: "none", "open", "ended", "errored", "closed"
    handlersOn,  \* the 'end' and 'error' listeners of readableStream are registered
    startP,      \* the promise checker.start() returned: "none", "pending", ...
    floatStop,   \* the promise of the checker.stop() that is not awaited
    isPostToSlack, \* the --slack flag
    hookOk,      \* SLACK_WEBHOOK_URL has been set to a URL https.request accepts
    trace,       \* history: console output and calls on the collaborators, in order
    exitCode,    \* -1 while the process runs, then its exit code
    \* ---- DropCheck._postToSlack (the webhook message) ----
    dropResult,  \* the result handed to _postToSlack: pid -> counts, or NoResult
    payload,     \* the payload _postToSlack built, or NoPayload
    nPosts,      \* number of requests written to the webhook
    \* ---- DropCheck._createTransformStream (the progress transform) ----
    tfPc,        \* "none": not created; "open": passing chunks; "flushed"
    size,        \* fs.statSync(srcM2tsPath).size
    bytesRead,   \* the closure's bytesRead
    count,       \* the closure's count
    barValue,    \* the value the progress bar shows
    barStopped,  \* progressBar.stop() was called
    nChunks,     \* history: chunks handed to transform()
    nShort,      \* history: how many of them were short
    nUpdates,    \* history: calls of progressBar.update made by transform()
    received,    \* history: the last chunks handed to transform(), oldest first
    pushed,      \* history: the last chunks pushed downstream, oldest first
    nPushed      \* history: chunks pushed downstream

busVars == <<listeners, nReg, busPc, cur, emits, micro, pendingCb, started,
             finished, logged, failedCb, unhandled, returned, threw>>

lcVars == <<maxRetry, lcState, retryCount, sessions, nSessions, lcEvents>>

dropVars == <<expected, errorCount, dropCount, scrCount, table, nFrames, last,
              sendCc, pendingLoss, lostTotal, nGaps, wideGap>>

cliVars == <<cliPc, p1, src, handlersOn, startP, floatStop, isPostToSlack, hookOk,
             trace, exitCode>>

slackVars == <<dropResult, payload, nPosts>>

transformVars == <<tfPc, size, bytesRead, count, barValue, barStopped, nChunks, nShort,
                   nUpdates, received, pushed, nPushed>>

vars == <<busVars, lcVars, dropVars, cliVars, slackVars, transformVars, slackVars>>

(***************************************************************************)
(* Bounds of the exploration.                                              *)
(***************************************************************************)
MaxListeners == 2
MaxEmits == 1
MaxRetryLimit == 2
MaxRelays == 1
MaxFrames == 3
MaxGap == 16
MaxGaps == 1

MaxCount == 1

MaxWraps == 1

MaxChunks == 201

MaxShort == 2

HistoryWindow == 2

PROGRESS_INTERVAL == 100

(***************************************************************************)
(* RecordingEvent.ts                                                       *)
(***************************************************************************)
START_PREP_RRECORDING_EVENT == "StartPrepRecording"
CANCEL_PREP_RRECORDING_EVENT == "CancelPrepRecording"
PREP_RECORDING_FAILED_EVENT == "PrepRecordingFailed"
START_RECORDING_EVENT == "StartRecordingEvent"
RECORDING_FAILED_EVENT == "RecordingFailedEvent"
RECORDING_RETRY_OVER_EVENT == "RecordingRetryOverEvent"
FINISH_RECORDING_EVENT == "FinishRecordingEvent"
EVENT_RELAY_EVENT == "EventRelayEvent"

Kinds == {START_PREP_RRECORDING_EVENT, CANCEL_PREP_RRECORDING_EVENT,
          PREP_RECORDING_FAILED_EVENT, START_RECORDING_EVENT,
          RECORDING_FAILED_EVENT, RECORDING_RETRY_OVER_EVENT,
          FINISH_RECORDING_EVENT, EVENT_RELAY_EVENT}

\* The kinds the bus exploration registers for and emits (the eight set*/emit*
\* pairs are the same code up to the event name and the argument list).
BusKinds == {START_PREP_RRECORDING_EVENT, FINISH_RECORDING_EVENT}

\* What a callback handed to set* may do when it is called:
\*   "return"   returns a plain value
\*   "throw"    throws before returning
\*   "reject"   returns a promise that is already rejected
\*   "suspend"  returns a pending promise, settled by a later task
Callbacks == {"return", "throw", "reject", "suspend"}

\* The arguments of an emit (the reserve, and with it recorded, the flag, programs).
Args == {1, 2}

NoEmit == [id |-> 0, kind |-> "", arg |-> 0, snap |-> <<>>, idx |-> 0]

\* A wrapper that ignores its callback's failures instead of catching them: a plain
\* function that calls the callback, with no try/catch and no await.
WrapperNoCatch(cb) ==
    [starts  |-> TRUE,
     escapes |-> cb = "throw",
     logs    |-> FALSE,
     next    |-> CASE cb = "return"  -> "done"
                   [] cb = "throw"   -> "done"
                   [] cb = "reject"  -> "lost"
                   [] cb = "suspend" -> "pending"]

\* A wrapper that handles its callback to the end before it returns.
WrapperBlocking(cb) ==
    [starts  |-> TRUE,
     escapes |-> FALSE,
     logs    |-> cb \in {"throw", "reject"},
     next    |-> "done"]

\* A wrapper that only schedules the callback and returns.
WrapperDeferred(cb) ==
    [starts  |-> FALSE,
     escapes |-> FALSE,
     logs    |-> FALSE,
     next    |-> "deferred"]

\* The synchronous part of one wrapper call,
\*     async (...) => { try { await callback(...); } catch (err) { log.system.error(err); } }
\* starts:  the callback's body runs inside this call
\* escapes: an exception leaves the wrapper into EventEmitter.emit
\* logs:    the catch block ran before the wrapper returned its promise
\* next:    "done" the wrapper has finished; "resume_ok" / "resume_err" it is suspended
\*          at the await with a settled value (a microtask resumes it);
\*          "pending" it is suspended on a promise not yet settled
Wrapper(cb) ==
    [starts  |-> TRUE,
     escapes |-> FALSE,
     logs    |-> cb = "throw",
     next    |-> CASE cb = "return"  -> "resume_ok"
                   [] cb = "throw"   -> "done"
                   [] cb = "reject"  -> "resume_err"
                   [] cb = "suspend" -> "pending"]

\* events.EventEmitter.prependListener
Prepend(list, w) == <<w>> \o list

\* events.EventEmitter.on: the listener goes to the end of the kind's list
On(list, w) == Append(list, w)

\* set<Kind>(callback)
Register(k, cb) ==
    /\ busPc \in {"idle", "task"}
    /\ nReg < MaxListeners
    /\ nReg' = nReg + 1
    /\ listeners' = [listeners EXCEPT ![k] = On(@, [id |-> nReg + 1, cb |-> cb])]
    /\ UNCHANGED <<lcVars, dropVars, cliVars, slackVars, transformVars, busPc, cur, emits, micro, pendingCb, started, finished, logged,
                   failedCb, unhandled, returned, threw>>

\* An emitter that calls the listeners of every kind.
EmitCallAllKinds(k, a) ==
    /\ busPc \in {"idle", "task"}
    /\ busPc = "idle" => micro = <<>>
    /\ Len(emits) < MaxEmits
    /\ emits' = Append(emits, [kind |-> k, arg |-> a,
                               regs |-> [i \in 1..Len(listeners[k]) |-> listeners[k][i].id]])
    /\ cur' = [id |-> Len(emits) + 1, kind |-> k, arg |-> a,
               snap |-> listeners[START_PREP_RRECORDING_EVENT] \o listeners[FINISH_RECORDING_EVENT],
               idx |-> 1]
    /\ busPc' = "emit"
    /\ UNCHANGED <<lcVars, dropVars, cliVars, slackVars, transformVars, listeners, nReg, micro, pendingCb, started, finished, logged,
                   failedCb, unhandled, returned, threw>>

\* emit<Kind>(...): EventEmitter.emit takes a copy of the kind's listener list and
\* calls the listeners of that copy one after the other.
EmitCall(k, a) ==
    /\ busPc \in {"idle", "task"}
    /\ busPc = "idle" => micro = <<>>
    /\ Len(emits) < MaxEmits
    /\ emits' = Append(emits, [kind |-> k, arg |-> a,
                               regs |-> [i \in 1..Len(listeners[k]) |-> listeners[k][i].id]])
    /\ cur' = [id |-> Len(emits) + 1, kind |-> k, arg |-> a, snap |-> listeners[k], idx |-> 1]
    /\ busPc' = "emit"
    /\ UNCHANGED <<lcVars, dropVars, cliVars, slackVars, transformVars, listeners, nReg, micro, pendingCb, started, finished, logged,
                   failedCb, unhandled, returned, threw>>

\* EventEmitter.emit calls the next listener of its copy.
Dispatch ==
    /\ busPc = "emit"
    /\ cur.idx <= Len(cur.snap)
    /\ LET w == cur.snap[cur.idx]
           r == Wrapper(w.cb)
           t == [e |-> cur.id, l |-> w.id, arg |-> cur.arg, cb |-> w.cb]
       IN  /\ started' = IF r.starts THEN Append(started, t) ELSE started
           /\ logged' = IF r.logs THEN logged \cup {t} ELSE logged
           /\ failedCb' = IF r.starts /\ w.cb \in {"throw", "reject"}
                          THEN failedCb \cup {t} ELSE failedCb
           /\ finished' = IF r.next = "done" /\ ~r.escapes THEN finished \cup {t} ELSE finished
           /\ unhandled' = IF r.next = "lost" THEN unhandled \cup {t} ELSE unhandled
           /\ micro' = IF r.next \in {"resume_ok", "resume_err", "deferred"}
                       THEN Append(micro, [t |-> t, what |-> r.next])
                       ELSE micro
           /\ pendingCb' = IF r.next = "pending" THEN pendingCb \cup {t} ELSE pendingCb
           /\ IF r.escapes
              THEN /\ threw' = threw \cup {cur.id}
                   /\ cur' = NoEmit
                   /\ busPc' = "task"
              ELSE /\ threw' = threw
                   /\ cur' = [cur EXCEPT !.idx = @ + 1]
                   /\ busPc' = busPc
    /\ UNCHANGED <<lcVars, dropVars, cliVars, slackVars, transformVars, listeners, nReg, emits, returned>>

\* EventEmitter.emit has called every listener of its copy and returns.
EmitReturn ==
    /\ busPc = "emit"
    /\ cur.idx > Len(cur.snap)
    /\ returned' = returned \cup {cur.id}
    /\ cur' = NoEmit
    /\ busPc' = "task"
    /\ UNCHANGED <<lcVars, dropVars, cliVars, slackVars, transformVars, listeners, nReg, emits, micro, pendingCb, started, finished, logged,
                   failedCb, unhandled, threw>>

\* The emitter's synchronous code ends; the event loop takes over.
TaskEnd ==
    /\ busPc = "task"
    /\ busPc' = "idle"
    /\ UNCHANGED <<lcVars, dropVars, cliVars, slackVars, transformVars, listeners, nReg, cur, emits, micro, pendingCb, started, finished,
                   logged, failedCb, unhandled, returned, threw>>

\* The event loop runs the oldest microtask: a wrapper resumes after its await
\* (normally, or into its catch block), or a scheduled callback is called.
RunMicrotask ==
    /\ busPc = "idle"
    /\ micro # <<>>
    /\ LET m == Head(micro)
       IN  IF m.what = "deferred"
           THEN /\ started' = Append(started, m.t)
                /\ logged' = IF m.t.cb \in {"throw", "reject"} THEN logged \cup {m.t} ELSE logged
                /\ failedCb' = IF m.t.cb \in {"throw", "reject"}
                               THEN failedCb \cup {m.t} ELSE failedCb
                /\ finished' = IF m.t.cb # "suspend" THEN finished \cup {m.t} ELSE finished
                /\ pendingCb' = IF m.t.cb = "suspend" THEN pendingCb \cup {m.t} ELSE pendingCb
           ELSE /\ started' = started
                /\ logged' = IF m.what = "resume_err" THEN logged \cup {m.t} ELSE logged
                /\ failedCb' = failedCb
                /\ finished' = finished \cup {m.t}
                /\ pendingCb' = pendingCb
    /\ micro' = Tail(micro)
    /\ UNCHANGED <<lcVars, dropVars, cliVars, slackVars, transformVars, listeners, nReg, busPc, cur, emits, unhandled, returned, threw>>

\* A later task settles the promise a suspended callback returned; the wrapper's
\* continuation is queued.
SettleCallback(t, ok) ==
    /\ busPc = "idle"
    /\ micro = <<>>
    /\ t \in pendingCb
    /\ pendingCb' = pendingCb \ {t}
    /\ micro' = Append(micro, [t |-> t, what |-> IF ok THEN "resume_ok" ELSE "resume_err"])
    /\ failedCb' = IF ok THEN failedCb ELSE failedCb \cup {t}
    /\ UNCHANGED <<lcVars, dropVars, cliVars, slackVars, transformVars, listeners, nReg, busPc, cur, emits, started, finished, logged,
                   unhandled, returned, threw>>

InitBus ==
    /\ listeners = [k \in Kinds |-> <<>>]
    /\ nReg = 0
    /\ busPc = "idle"
    /\ cur = NoEmit
    /\ emits = <<>>
    /\ micro = <<>>
    /\ pendingCb = {}
    /\ started = <<>>
    /\ finished = {}
    /\ logged = {}
    /\ failedCb = {}
    /\ unhandled = {}
    /\ returned = {}
    /\ threw = {}

SetListener == \E k \in BusKinds, cb \in Callbacks : Register(k, cb)

Emit == \E k \in BusKinds, a \in Args : EmitCall(k, a)

Settle == \E t \in pendingCb, ok \in BOOLEAN : SettleCallback(t, ok)

NextBus ==
    \/ SetListener
    \/ Emit
    \/ Dispatch
    \/ EmitReturn
    \/ TaskEnd
    \/ RunMicrotask
    \/ Settle

(***************************************************************************)
(* The recording lifecycle of one reservation (specification 4.5; the       *)
(* controller's code is not among the repository's files given).  Each     *)
(* transition emits its event through RecordingEvent.emit*.                 *)
(***************************************************************************)
Reservations == {1, 2}

LcStates == {"Idle", "PrepPending", "PrepFailed", "PrepCancelled", "Recording",
             "Finished", "Failed", "RetryPending", "RetryOver"}

\* emit<Kind>(reserve, ...) as the reservation's event history sees it
EmitFor(r, kind) == [lcEvents EXCEPT ![r] = Append(@, kind)]

\* The number of events of one kind emitted for a reservation.
CountOf(r, kind) == Cardinality({i \in DOMAIN lcEvents[r] : lcEvents[r][i] = kind})

\* A retry test that lets the counter pass the maximum.
CanRetryOffByOne(r) == retryCount[r] <= maxRetry

\* "if the reservation's retry counter is below the configured maximum"
CanRetry(r) == retryCount[r] < maxRetry

\* Idle -> PrepPending: the controller is asked to prepare the reservation.
Prepare(r) ==
    /\ lcState[r] = "Idle"
    /\ lcState' = [lcState EXCEPT ![r] = "PrepPending"]
    /\ lcEvents' = EmitFor(r, START_PREP_RRECORDING_EVENT)
    /\ UNCHANGED <<maxRetry, retryCount, sessions, nSessions>>
    /\ UNCHANGED <<busVars, dropVars, cliVars, slackVars, transformVars>>

\* PrepPending -> PrepCancelled: cancelled before the acquisition completes.
CancelPrep(r) ==
    /\ lcState[r] = "PrepPending"
    /\ lcState' = [lcState EXCEPT ![r] = "PrepCancelled"]
    /\ lcEvents' = EmitFor(r, CANCEL_PREP_RRECORDING_EVENT)
    /\ UNCHANGED <<maxRetry, retryCount, sessions, nSessions>>
    /\ UNCHANGED <<busVars, dropVars, cliVars, slackVars, transformVars>>

\* An acquisition failure that is counted as an attempt.
PrepFailConsumesRetry(r) ==
    /\ lcState[r] = "PrepPending"
    /\ lcState' = [lcState EXCEPT ![r] = "PrepFailed"]
    /\ lcEvents' = EmitFor(r, PREP_RECORDING_FAILED_EVENT)
    /\ retryCount' = [retryCount EXCEPT ![r] = @ + 1]
    /\ UNCHANGED <<maxRetry, sessions, nSessions>>
    /\ UNCHANGED <<busVars, dropVars, cliVars, slackVars, transformVars>>

\* PrepPending -> PrepFailed: the acquisition (tuner, resource) fails.
PrepFail(r) ==
    /\ lcState[r] = "PrepPending"
    /\ lcState' = [lcState EXCEPT ![r] = "PrepFailed"]
    /\ lcEvents' = EmitFor(r, PREP_RECORDING_FAILED_EVENT)
    /\ UNCHANGED <<maxRetry, retryCount, sessions, nSessions>>
    /\ UNCHANGED <<busVars, dropVars, cliVars, slackVars, transformVars>>

\* PrepPending -> Recording: the acquisition succeeds and the capture starts; the
\* attempt's RecordingSession is created.
StartRecording(r) ==
    /\ lcState[r] = "PrepPending"
    /\ lcState' = [lcState EXCEPT ![r] = "Recording"]
    /\ nSessions' = [nSessions EXCEPT ![r] = @ + 1]
    /\ sessions' = [sessions EXCEPT ![r] = @ \cup {nSessions[r] + 1}]
    /\ lcEvents' = EmitFor(r, START_RECORDING_EVENT)
    /\ UNCHANGED <<maxRetry, retryCount>>
    /\ UNCHANGED <<busVars, dropVars, cliVars, slackVars, transformVars>>

\* Recording -> Finished: capture and stream end cleanly; the session is destroyed.
FinishRecording(r) ==
    /\ lcState[r] = "Recording"
    /\ lcState' = [lcState EXCEPT ![r] = "Finished"]
    /\ sessions' = [sessions EXCEPT ![r] = {}]
    /\ lcEvents' = EmitFor(r, FINISH_RECORDING_EVENT)
    /\ UNCHANGED <<maxRetry, retryCount, nSessions>>
    /\ UNCHANGED <<busVars, dropVars, cliVars, slackVars, transformVars>>

\* A failure that leaves the attempt's session alive.
RecordingFailedKeepsSession(r) ==
    /\ lcState[r] = "Recording"
    /\ lcState' = [lcState EXCEPT ![r] = "Failed"]
    /\ lcEvents' = EmitFor(r, RECORDING_FAILED_EVENT)
    /\ UNCHANGED <<maxRetry, retryCount, sessions, nSessions>>
    /\ UNCHANGED <<busVars, dropVars, cliVars, slackVars, transformVars>>

\* Recording -> Failed: the capture exits abnormally or the stream errors; the
\* attempt ends and its session is destroyed.
RecordingFailed(r) ==
    /\ lcState[r] = "Recording"
    /\ lcState' = [lcState EXCEPT ![r] = "Failed"]
    /\ sessions' = [sessions EXCEPT ![r] = {}]
    /\ lcEvents' = EmitFor(r, RECORDING_FAILED_EVENT)
    /\ UNCHANGED <<maxRetry, retryCount, nSessions>>
    /\ UNCHANGED <<busVars, dropVars, cliVars, slackVars, transformVars>>

\* Failed -> RetryPending: the counter is below the maximum and is incremented.
Retry(r) ==
    /\ lcState[r] = "Failed"
    /\ CanRetry(r)
    /\ retryCount' = [retryCount EXCEPT ![r] = @ + 1]
    /\ lcState' = [lcState EXCEPT ![r] = "RetryPending"]
    /\ UNCHANGED <<maxRetry, sessions, nSessions, lcEvents>>
    /\ UNCHANGED <<busVars, dropVars, cliVars, slackVars, transformVars>>

\* RetryPending -> PrepPending: the next attempt is prepared (as from Idle).
RePrepare(r) ==
    /\ lcState[r] = "RetryPending"
    /\ lcState' = [lcState EXCEPT ![r] = "PrepPending"]
    /\ lcEvents' = EmitFor(r, START_PREP_RRECORDING_EVENT)
    /\ UNCHANGED <<maxRetry, retryCount, sessions, nSessions>>
    /\ UNCHANGED <<busVars, dropVars, cliVars, slackVars, transformVars>>

\* Failed -> RetryOver: the counter has reached the maximum.
RetryOver(r) ==
    /\ lcState[r] = "Failed"
    /\ ~CanRetry(r)
    /\ lcState' = [lcState EXCEPT ![r] = "RetryOver"]
    /\ lcEvents' = EmitFor(r, RECORDING_RETRY_OVER_EVENT)
    /\ UNCHANGED <<maxRetry, retryCount, sessions, nSessions>>
    /\ UNCHANGED <<busVars, dropVars, cliVars, slackVars, transformVars>>

\* Any state: the side broadcast requesting dependent reservations.
EventRelay(r) ==
    /\ CountOf(r, EVENT_RELAY_EVENT) < MaxRelays
    /\ lcEvents' = EmitFor(r, EVENT_RELAY_EVENT)
    /\ UNCHANGED <<maxRetry, lcState, retryCount, sessions, nSessions>>
    /\ UNCHANGED <<busVars, dropVars, cliVars, slackVars, transformVars>>

\* The lifecycle before anything is prepared, under the configured maximum m.
LcIdle(m) ==
    /\ maxRetry = m
    /\ lcState = [r \in Reservations |-> "Idle"]
    /\ retryCount = [r \in Reservations |-> 0]
    /\ sessions = [r \in Reservations |-> {}]
    /\ nSessions = [r \in Reservations |-> 0]
    /\ lcEvents = [r \in Reservations |-> <<>>]

InitLifecycle == \E m \in 0..MaxRetryLimit : LcIdle(m)

NextLifecycle ==
    \E r \in Reservations :
        \/ Prepare(r)
        \/ CancelPrep(r)
        \/ PrepFail(r)
        \/ StartRecording(r)
        \/ FinishRecording(r)
        \/ RecordingFailed(r)
        \/ Retry(r)
        \/ RePrepare(r)
        \/ RetryOver(r)
        \/ EventRelay(r)

(***************************************************************************)
(* The stream integrity analysis (specification 4.2: ContinuityTracker and  *)
(* StreamIntegrityAnalyzer; the analyzer's code is not among the            *)
(* repository's files given), fed by a sender that numbers the payload      *)
(* frames of each channel and may lose, repeat or renumber them.            *)
(***************************************************************************)
\* The reserved null-packet identifier: all ones, 13 bits.
NULL_PID == 8191

\* The continuity counter is a 4-bit field.
CC_MODULUS == 16

\* The longest gap the counter can tell from a duplicate: a jump by 15.
MAX_COUNTED_GAP == CC_MODULUS - 2

\* The channels of the exploration.
Pids == {256, 257}

\* adaptation-field-control: 1 payload only, 2 adaptation field only, 3 both
PAYLOAD_ONLY == 1
ADAPTATION_ONLY == 2
ADAPTATION_AND_PAYLOAD == 3

\* The header flags of the payload frames explored: plain, with an adaptation
\* field, with the transport-error-indicator set on a scrambled frame.
Headers == {[tei |-> FALSE, scr |-> 0, afc |-> PAYLOAD_ONLY],
            [tei |-> FALSE, scr |-> 0, afc |-> ADAPTATION_AND_PAYLOAD],
            [tei |-> TRUE, scr |-> 2, afc |-> PAYLOAD_ONLY]}

NoFrame == [pid |-> 0, tei |-> FALSE, scr |-> 0, afc |-> 0, cc |-> 0, disc |-> FALSE]

NoLast == [f |-> NoFrame, exp |-> -1, drop |-> 0]

\* The packet carries a payload.
HasPayload(f) == f.afc \in {PAYLOAD_ONLY, ADAPTATION_AND_PAYLOAD}

\* The discontinuity indicator travels in the adaptation field.
Discontinuity(f) == f.afc \in {ADAPTATION_ONLY, ADAPTATION_AND_PAYLOAD} /\ f.disc

\* The gap between the counter expected next and the one observed, modulo 16.
Gap(exp, cc) == (cc + CC_MODULUS - ((exp + 1) % CC_MODULUS)) % CC_MODULUS

\* A charge of one drop for any break of the sequence, whatever its length.
DropChargeOnePerBreak(exp, f) ==
    IF exp = -1 \/ Discontinuity(f) \/ f.cc = exp \/ f.cc = (exp + 1) % CC_MODULUS
    THEN 0
    ELSE 1

\* A charge that takes a repeated counter for a gap of fifteen.
DropChargeNoDuplicateRule(exp, f) ==
    IF exp = -1 \/ Discontinuity(f)
    THEN 0
    ELSE Gap(exp, f.cc)

\* The drops charged for payload-bearing frame f on a channel whose last observed
\* counter is exp: none on the first observation, none under the discontinuity
\* indicator, none for the expected counter, none for a duplicate; otherwise one
\* per unit of gap modulo 16.
DropCharge(exp, f) ==
    IF exp = -1 THEN 0
    ELSE IF Discontinuity(f) THEN 0
    ELSE IF f.cc = (exp + 1) % CC_MODULUS THEN 0
    ELSE IF f.cc = exp THEN 0
    ELSE Gap(exp, f.cc)

\* The analyzer classifies one frame.  The null identifier is ignored entirely;
\* the error and scrambling counts do not depend on the continuity state; the
\* continuity counter is tracked on payload-bearing frames only and is always
\* reseeded from the observed value.
Analyze(f) ==
    /\ nFrames' = nFrames + 1
    /\ IF f.pid = NULL_PID
       THEN UNCHANGED <<expected, errorCount, dropCount, scrCount, table, last>>
       ELSE /\ table' = table \cup {f.pid}
            /\ errorCount' = [errorCount EXCEPT ![f.pid] = IF f.tei THEN @ + 1 ELSE @]
            /\ scrCount' = [scrCount EXCEPT ![f.pid] = IF f.scr # 0 THEN @ + 1 ELSE @]
            /\ last' = [f |-> f, exp |-> expected[f.pid], drop |-> dropCount[f.pid]]
            /\ IF HasPayload(f)
               THEN /\ dropCount' = [dropCount EXCEPT ![f.pid] = @ + DropCharge(expected[f.pid], f)]
                    /\ expected' = [expected EXCEPT ![f.pid] = f.cc]
               ELSE UNCHANGED <<expected, dropCount>>

\* The counter of the last payload frame the sender numbered for a channel.
PrevCc(p) == (sendCc[p] + CC_MODULUS - 1) % CC_MODULUS

\* The sender's next payload frame of channel p arrives (with or without an
\* adaptation field, the error indicator, scrambling).  It closes a gap.
SendPayload(p, tei, scr, afc) ==
    /\ nFrames < MaxFrames
    /\ Analyze([pid |-> p, tei |-> tei, scr |-> scr, afc |-> afc, cc |-> sendCc[p],
                disc |-> FALSE])
    /\ sendCc' = [sendCc EXCEPT ![p] = (@ + 1) % CC_MODULUS]
    /\ lostTotal' = [lostTotal EXCEPT ![p] = @ + pendingLoss[p]]
    /\ wideGap' = [wideGap EXCEPT ![p] = @ \/ pendingLoss[p] > MAX_COUNTED_GAP]
    /\ pendingLoss' = [pendingLoss EXCEPT ![p] = 0]
    /\ UNCHANGED nGaps
    /\ UNCHANGED <<busVars, lcVars, cliVars, slackVars, transformVars>>

\* A frame with an adaptation field and no payload arrives: it repeats the counter
\* of the channel's last payload frame.
SendAdaptationOnly(p, tei, scr) ==
    /\ nFrames < MaxFrames
    /\ Analyze([pid |-> p, tei |-> tei, scr |-> scr, afc |-> ADAPTATION_ONLY,
                cc |-> PrevCc(p), disc |-> FALSE])
    /\ UNCHANGED <<sendCc, pendingLoss, lostTotal, nGaps, wideGap>>
    /\ UNCHANGED <<busVars, lcVars, cliVars, slackVars, transformVars>>

\* The last payload frame delivered arrives a second time.
SendDuplicate(p) ==
    /\ nFrames < MaxFrames
    /\ expected[p] # -1
    /\ pendingLoss[p] = 0
    /\ Analyze([pid |-> p, tei |-> FALSE, scr |-> 0, afc |-> PAYLOAD_ONLY,
                cc |-> PrevCc(p), disc |-> FALSE])
    /\ UNCHANGED <<sendCc, pendingLoss, lostTotal, nGaps, wideGap>>
    /\ UNCHANGED <<busVars, lcVars, cliVars, slackVars, transformVars>>

\* The sender renumbers channel p and says so: a payload frame with the
\* discontinuity indicator asserted.  What was lost before it is not a gap of the
\* new sequence.
SendDiscontinuity(p, cc) ==
    /\ nFrames < MaxFrames
    /\ Analyze([pid |-> p, tei |-> FALSE, scr |-> 0, afc |-> ADAPTATION_AND_PAYLOAD,
                cc |-> cc, disc |-> TRUE])
    /\ sendCc' = [sendCc EXCEPT ![p] = (cc + 1) % CC_MODULUS]
    /\ pendingLoss' = [pendingLoss EXCEPT ![p] = 0]
    /\ UNCHANGED <<lostTotal, nGaps, wideGap>>
    /\ UNCHANGED <<busVars, lcVars, cliVars, slackVars, transformVars>>

\* A null packet arrives.
SendNull(cc) ==
    /\ nFrames < MaxFrames
    /\ Analyze([pid |-> NULL_PID, tei |-> FALSE, scr |-> 0, afc |-> PAYLOAD_ONLY,
                cc |-> cc, disc |-> FALSE])
    /\ UNCHANGED <<sendCc, pendingLoss, lostTotal, nGaps, wideGap>>
    /\ UNCHANGED <<busVars, lcVars, cliVars, slackVars, transformVars>>

\* k consecutive payload frames of channel p never arrive.
Lose(p, k) ==
    /\ nFrames < MaxFrames
    /\ nGaps < MaxGaps
    /\ expected[p] # -1
    /\ pendingLoss[p] = 0
    /\ sendCc' = [sendCc EXCEPT ![p] = (@ + k) % CC_MODULUS]
    /\ pendingLoss' = [pendingLoss EXCEPT ![p] = k]
    /\ nGaps' = nGaps + 1
    /\ UNCHANGED <<expected, errorCount, dropCount, scrCount, table, nFrames, last,
                   lostTotal, wideGap>>
    /\ UNCHANGED <<busVars, lcVars, cliVars, slackVars, transformVars>>

\* The analyzer of a new session, and a sender whose channels start at counter c.
DropIdle(c) ==
    /\ expected = [p \in Pids |-> -1]
    /\ errorCount = [p \in Pids |-> 0]
    /\ dropCount = [p \in Pids |-> 0]
    /\ scrCount = [p \in Pids |-> 0]
    /\ table = {}
    /\ nFrames = 0
    /\ last = NoLast
    /\ sendCc = [p \in Pids |-> c]
    /\ pendingLoss = [p \in Pids |-> 0]
    /\ lostTotal = [p \in Pids |-> 0]
    /\ nGaps = 0
    /\ wideGap = [p \in Pids |-> FALSE]

\* The sender's channels start two frames before the counter wraps.
FIRST_CC == CC_MODULUS - 2

InitDrop == DropIdle(FIRST_CC)

NextDrop ==
    \/ \E p \in Pids, h \in Headers : SendPayload(p, h.tei, h.scr, h.afc)
    \/ \E p \in Pids : SendAdaptationOnly(p, FALSE, 0)
    \/ \E p \in Pids : SendDuplicate(p)
    \/ \E p \in Pids : SendDiscontinuity(p, 9)
    \/ SendNull(0)
    \/ \E p \in Pids, k \in 1..MaxGap : Lose(p, k)

(***************************************************************************)
(* DropCheck.ts: the constructor and run().  The collaborators (the read    *)
(* stream, DropCheckerModel's start / stop / getResult, the runtime's       *)
(* handling of a rejection nobody handles) appear as the events they        *)
(* deliver to run().                                                        *)
(***************************************************************************)
\* The process has not exited.
Alive == exitCode = -1

\* console.error lines 84-85, then `await checker.stop().catch(() => {})` is begun
FailureHandler == <<"err:check-failed", "stop()">>

\* console.error lines 111-112, then `await checker.stop().catch(() => {})` is begun
ReleaseFailureHandler == <<"err:release-failed", "stop()">>

\* What follows the awaited stop() in both catch blocks (lines 88-91, 115-118).
ReleaseAndExit == <<"transform.end", "transform.unpipe", "readable.close", "exit(1)">>

\* The release of the try block (lines 100-103); its stop() is not awaited.
Release == <<"stop()", "transform.end", "transform.unpipe", "readable.close">>

\* new DropCheck(): without an input path it prints the usage and exits 1.
Construct(hasInput, slack, hook) ==
    /\ cliPc = "new"
    /\ isPostToSlack' = slack
    /\ hookOk' = hook
    /\ IF hasInput
       THEN /\ cliPc' = "init"
            /\ UNCHANGED <<trace, exitCode>>
       ELSE /\ cliPc' = "exited"
            /\ trace' = trace \o <<"err:usage", "exit(1)">>
            /\ exitCode' = 1
    /\ UNCHANGED <<p1, src, handlersOn, startP, floatStop>>
    /\ UNCHANGED <<busVars, lcVars, dropVars, slackVars, transformVars>>

\* run() up to its first await: the start message, createReadStream, the transform
\* stream (fs.statSync throws when the file cannot be stat'ed, and run() rejects
\* with nothing registered or started), pipe, the listeners, checker.start().
RunStart(statOk) ==
    /\ cliPc = "init"
    /\ src' = "open"
    /\ IF statOk
       THEN /\ cliPc' = "phase1"
            /\ handlersOn' = TRUE
            /\ startP' = "pending"
            /\ trace' = trace \o <<"log:start", "start()">>
       ELSE /\ cliPc' = "rejected"
            /\ trace' = trace \o <<"log:start", "statSync:throw">>
            /\ UNCHANGED <<handlersOn, startP>>
    /\ UNCHANGED <<p1, floatStop, isPostToSlack, hookOk, exitCode>>
    /\ UNCHANGED <<busVars, lcVars, dropVars, slackVars, transformVars>>

\* A listener of 'error' that takes the failure for the end of the input.
OnReadErrorResolves ==
    /\ Alive
    /\ src = "open"
    /\ cliPc \in {"phase1", "catch1", "warned"}
    /\ src' = "errored"
    /\ IF ~handlersOn
       THEN /\ cliPc' = "crashed"
            /\ exitCode' = 1
            /\ trace' = trace \o <<"err:uncaught">>
            /\ p1' = p1
       ELSE IF p1 = "pending"
       THEN /\ p1' = "resolved"
            /\ cliPc' = "result"
            /\ trace' = trace \o <<"getResult()">>
            /\ exitCode' = exitCode
       ELSE UNCHANGED <<p1, cliPc, trace, exitCode>>
    /\ UNCHANGED <<handlersOn, startP, floatStop, isPostToSlack, hookOk>>
    /\ UNCHANGED <<busVars, lcVars, dropVars, slackVars, transformVars>>

\* readableStream emits 'error'.  With the listener of line 70 registered it
\* rejects the promise, and if that settles it the catch handler of line 83 runs up
\* to its await.  With no listener (run() rejected before line 70) the event is an
\* uncaught exception: the runtime prints it and the process ends with code 1.
OnReadError ==
    /\ Alive
    /\ src = "open"
    /\ cliPc \in {"phase1", "catch1", "warned"}
    /\ src' = "errored"
    /\ IF ~handlersOn
       THEN /\ cliPc' = "crashed"
            /\ exitCode' = 1
            /\ trace' = trace \o <<"err:uncaught">>
            /\ p1' = p1
       ELSE IF p1 = "pending"
       THEN /\ p1' = "rejected"
            /\ cliPc' = "catch1"
            /\ trace' = trace \o FailureHandler
            /\ exitCode' = exitCode
       ELSE UNCHANGED <<p1, cliPc, trace, exitCode>>
    /\ UNCHANGED <<handlersOn, startP, floatStop, isPostToSlack, hookOk>>
    /\ UNCHANGED <<busVars, lcVars, dropVars, slackVars, transformVars>>

\* readableStream emits 'end': the listener of line 65 resolves the promise, and
\* if that settles it run() goes on to `await checker.getResult()`.
OnReadEnd ==
    /\ Alive
    /\ src = "open"
    /\ handlersOn
    /\ cliPc \in {"phase1", "catch1"}
    /\ src' = "ended"
    /\ IF p1 = "pending"
       THEN /\ p1' = "resolved"
            /\ cliPc' = "result"
            /\ trace' = trace \o <<"getResult()">>
       ELSE UNCHANGED <<p1, cliPc, trace>>
    /\ UNCHANGED <<handlersOn, startP, floatStop, isPostToSlack, hookOk, exitCode>>
    /\ UNCHANGED <<busVars, lcVars, dropVars, slackVars, transformVars>>

\* The promise of checker.start() settles; a rejection reaches reject() through
\* the catch of line 80.
StartSettles(ok) ==
    /\ Alive
    /\ startP = "pending"
    /\ startP' = IF ok THEN "resolved" ELSE "rejected"
    /\ IF ~ok /\ p1 = "pending"
       THEN /\ p1' = "rejected"
            /\ cliPc' = "catch1"
            /\ trace' = trace \o FailureHandler
       ELSE UNCHANGED <<p1, cliPc, trace>>
    /\ UNCHANGED <<src, handlersOn, floatStop, isPostToSlack, hookOk, exitCode>>
    /\ UNCHANGED <<busVars, lcVars, dropVars, slackVars, transformVars>>

\* The awaited checker.stop() of a catch block settles (a rejection is swallowed):
\* the streams are released and process.exit(1) is called.
StopSettles(ok) ==
    /\ Alive
    /\ cliPc \in {"catch1", "catch2"}
    /\ trace' = trace \o <<IF ok THEN "stop:resolved" ELSE "stop:rejected">> \o ReleaseAndExit
    /\ src' = "closed"
    /\ cliPc' = "exited"
    /\ exitCode' = 1
    /\ UNCHANGED <<p1, handlersOn, startP, floatStop, isPostToSlack, hookOk>>
    /\ UNCHANGED <<busVars, lcVars, dropVars, slackVars, transformVars>>

\* A try block that posts whether or not --slack was given.
GetResultSettlesAlwaysPosts(ok) ==
    /\ Alive
    /\ cliPc = "result"
    /\ ok => startP = "resolved"
    /\ IF ok
       THEN /\ floatStop' = "pending"
            /\ src' = "closed"
            /\ IF ~hookOk
               THEN /\ trace' = trace \o <<"getResult:resolved">> \o Release
                                      \o <<"log:done", "log:totals", "request:throw">>
                                      \o ReleaseFailureHandler
                    /\ cliPc' = "catch2"
               ELSE /\ trace' = trace \o <<"getResult:resolved">> \o Release
                                      \o <<"log:done", "log:totals">>
                                      \o <<"post">>
                    /\ cliPc' = "done"
       ELSE /\ trace' = trace \o <<"getResult:rejected">> \o ReleaseFailureHandler
            /\ cliPc' = "catch2"
            /\ UNCHANGED <<floatStop, src>>
    /\ UNCHANGED <<p1, handlersOn, startP, isPostToSlack, hookOk, exitCode>>
    /\ UNCHANGED <<busVars, lcVars, dropVars, slackVars, transformVars>>

\* checker.getResult() settles.  Resolved: the try block releases, prints the
\* completion message and the totals and, with --slack, posts (https.request
\* throws on a URL it cannot parse, into the catch of line 110).  Rejected: the
\* catch of line 110 runs up to its await.  A result is finalized by the consumer
\* that start() set up, so there is one only once start() has resolved.
GetResultSettles(ok) ==
    /\ Alive
    /\ cliPc = "result"
    /\ ok => startP = "resolved"
    /\ IF ok
       THEN /\ floatStop' = "pending"
            /\ src' = "closed"
            /\ IF isPostToSlack /\ ~hookOk
               THEN /\ trace' = trace \o <<"getResult:resolved">> \o Release
                                      \o <<"log:done", "log:totals", "request:throw">>
                                      \o ReleaseFailureHandler
                    /\ cliPc' = "catch2"
               ELSE /\ trace' = trace \o <<"getResult:resolved">> \o Release
                                      \o <<"log:done", "log:totals">>
                                      \o (IF isPostToSlack THEN <<"post">> ELSE <<>>)
                    /\ cliPc' = "done"
       ELSE /\ trace' = trace \o <<"getResult:rejected">> \o ReleaseFailureHandler
            /\ cliPc' = "catch2"
            /\ UNCHANGED <<floatStop, src>>
    /\ UNCHANGED <<p1, handlersOn, startP, isPostToSlack, hookOk, exitCode>>
    /\ UNCHANGED <<busVars, lcVars, dropVars, slackVars, transformVars>>

\* The checker.stop() of line 100 settles.  Nothing handles its rejection: the
\* runtime either ends the process with code 1 or only warns (its
\* unhandled-rejections mode).
FloatingStopSettles(ok, fatal) ==
    /\ Alive
    /\ floatStop = "pending"
    /\ floatStop' = IF ok THEN "resolved" ELSE "rejected"
    /\ IF ~ok /\ fatal
       THEN /\ cliPc' = "crashed"
            /\ exitCode' = 1
            /\ trace' = trace \o <<"err:uncaught">>
       ELSE UNCHANGED <<cliPc, exitCode, trace>>
    /\ UNCHANGED <<p1, src, handlersOn, startP, isPostToSlack, hookOk>>
    /\ UNCHANGED <<busVars, lcVars, dropVars, slackVars, transformVars>>

\* Nothing handles the rejection of run() (line 234): the runtime either ends the
\* process with code 1 or only warns (its unhandled-rejections mode).
UnhandledRejection(fatal) ==
    /\ cliPc = "rejected"
    /\ IF fatal
       THEN /\ cliPc' = "crashed"
            /\ exitCode' = 1
            /\ trace' = trace \o <<"err:uncaught">>
       ELSE /\ cliPc' = "warned"
            /\ trace' = trace \o <<"err:warning">>
            /\ exitCode' = exitCode
    /\ UNCHANGED <<p1, src, handlersOn, startP, floatStop, isPostToSlack, hookOk>>
    /\ UNCHANGED <<busVars, lcVars, dropVars, slackVars, transformVars>>

\* run() has returned and nothing is pending: the process ends with code 0.
ProcessEnds ==
    /\ Alive
    /\ cliPc = "done"
    /\ floatStop # "pending"
    /\ cliPc' = "finished"
    /\ exitCode' = 0
    /\ UNCHANGED <<p1, src, handlersOn, startP, floatStop, isPostToSlack, hookOk, trace>>
    /\ UNCHANGED <<busVars, lcVars, dropVars, slackVars, transformVars>>

InitCli ==
    /\ cliPc = "new"
    /\ p1 = "pending"
    /\ src = "none"
    /\ handlersOn = FALSE
    /\ startP = "none"
    /\ floatStop = "none"
    /\ isPostToSlack = FALSE
    /\ hookOk = FALSE
    /\ trace = <<>>
    /\ exitCode = -1

NewDropCheck == \E hasInput, slack, hook \in BOOLEAN : Construct(hasInput, slack, hook)

Run == \E statOk \in BOOLEAN : RunStart(statOk)

StartPromise == \E ok \in BOOLEAN : StartSettles(ok)

StopPromise == \E ok \in BOOLEAN : StopSettles(ok)

GetResultPromise == \E ok \in BOOLEAN : GetResultSettles(ok)

FloatingStopPromise == \E ok, fatal \in BOOLEAN : FloatingStopSettles(ok, fatal)

RunRejected == \E fatal \in BOOLEAN : UnhandledRejection(fatal)

NextCli ==
    \/ NewDropCheck
    \/ Run
    \/ OnReadEnd
    \/ OnReadError
    \/ StartPromise
    \/ StopPromise
    \/ GetResultPromise
    \/ FloatingStopPromise
    \/ RunRejected
    \/ ProcessEnds

(***************************************************************************)
(* The specifications.                                                     *)
(***************************************************************************)
(***************************************************************************)
(* DropCheck._postToSlack: the totals, the urgent markers and the request.  *)
(* A count is a JavaScript number n = hi * 2^32 + lo with 0 <= lo < 2^31;   *)
(* the bitwise operators see ToInt32(n), which is lo.                       *)
(***************************************************************************)
Counts == [hi : 0..MaxWraps, lo : 0..MaxCount]

Zero == [hi |-> 0, lo |-> 0]

\* Addition of counts; no sum of the low words reaches 2^32 here.
Plus(a, b) == [hi |-> a.hi + b.hi, lo |-> a.lo + b.lo]

\* The conversion the operator | applies to each operand.
ToInt32(n) == n.lo

RECURSIVE BitOr(_, _)
\* a | b on non-negative 32-bit integers, bit by bit.
BitOr(a, b) ==
    IF a = 0 THEN b
    ELSE IF b = 0 THEN a
    ELSE (IF a % 2 = 1 \/ b % 2 = 1 THEN 1 ELSE 0) + 2 * BitOr(a \div 2, b \div 2)

\* A number in a condition: every value but 0 is true.
Truthy(n) == n # 0

PidResults == [error : Counts, drop : Counts, scrambling : Counts]

NoResult == [none |-> TRUE]

NoPayload == [none |-> TRUE]

RECURSIVE SumOver(_, _, _)
\* The loop `for (const pid in dropResult)` of lines 184-188, for one counter.
SumOver(r, pids, field) ==
    IF pids = {} THEN Zero
    ELSE LET pid == CHOOSE x \in pids : TRUE
         IN Plus(r[pid][field], SumOver(r, pids \ {pid}, field))

Total(r, field) == SumOver(r, DOMAIN r, field)

\* Lines 191-215: hasProblem and the payload it shapes.
BuildPayload(r) ==
    LET error == Total(r, "error")
        drop == Total(r, "drop")
        scrambling == Total(r, "scrambling")
        hasProblem == BitOr(BitOr(ToInt32(error), ToInt32(drop)), ToInt32(scrambling))
    IN [here |-> Truthy(hasProblem),
        resultHead |-> IF Truthy(hasProblem) THEN ":warning: " ELSE ":white_check_mark: ",
        textHead |-> IF Truthy(hasProblem) THEN "[!] " ELSE "",
        bold |-> [error |-> error # Zero, drop |-> drop # Zero,
                  scrambling |-> scrambling # Zero]]

\* getResult() hands run() a result.
ResultArrives(r) ==
    /\ dropResult = NoResult
    /\ dropResult' = r
    /\ UNCHANGED <<payload, nPosts>>
    /\ UNCHANGED <<busVars, lcVars, dropVars, cliVars, transformVars>>

\* _postToSlack(dropResult): builds the payload; https.request (line 224) throws
\* on a URL it cannot parse, otherwise the payload is written and the request ended.
PostToSlack(urlOk) ==
    /\ dropResult # NoResult
    /\ payload = NoPayload
    /\ payload' = BuildPayload(dropResult)
    /\ nPosts' = IF urlOk THEN nPosts + 1 ELSE nPosts
    /\ UNCHANGED dropResult
    /\ UNCHANGED <<busVars, lcVars, dropVars, cliVars, transformVars>>

InitSlack ==
    /\ dropResult = NoResult
    /\ payload = NoPayload
    /\ nPosts = 0

GetResult == \E r \in [Pids -> PidResults] : ResultArrives(r)

Post == \E urlOk \in BOOLEAN : PostToSlack(urlOk)

NextSlack ==
    \/ GetResult
    \/ Post

(***************************************************************************)
(* DropCheck._createTransformStream: the transform between the read stream  *)
(* and the checker, and the progress bar it drives.  A chunk is known by    *)
(* its length; the read stream hands out full chunks and, now and then, a   *)
(* short one.                                                               *)
(***************************************************************************)
FULL_CHUNK == 2

SHORT_CHUNK == 1

Chunks == {SHORT_CHUNK, FULL_CHUNK}

FileSizes == {0, MaxChunks, FULL_CHUNK * MaxChunks}

\* The last HistoryWindow entries of seq followed by x.
Recent(seq, x) ==
    LET all == Append(seq, x)
    IN IF Len(all) > HistoryWindow THEN Tail(all) ELSE all

\* _createTransformStream(): stat, the counters, progressBar.start(size, 0).
CreateTransformStream(sz) ==
    /\ tfPc = "none"
    /\ tfPc' = "open"
    /\ size' = sz
    /\ bytesRead' = 0
    /\ count' = 0
    /\ barValue' = 0
    /\ barStopped' = FALSE
    /\ UNCHANGED <<nChunks, nShort, nUpdates, received, pushed, nPushed>>
    /\ UNCHANGED <<busVars, lcVars, dropVars, cliVars, slackVars>>

\* A transform that forgets to reset its counter.
TransformNoReset(chunk) ==
    /\ tfPc = "open"
    /\ nChunks < MaxChunks
    /\ chunk = SHORT_CHUNK => nShort < MaxShort
    /\ bytesRead' = bytesRead + chunk
    /\ IF count + 1 = PROGRESS_INTERVAL
       THEN /\ barValue' = bytesRead'
            /\ count' = count
            /\ nUpdates' = nUpdates + 1
       ELSE /\ count' = count + 1
            /\ UNCHANGED <<barValue, nUpdates>>
    /\ pushed' = Recent(pushed, chunk)
    /\ nPushed' = nPushed + 1
    /\ nChunks' = nChunks + 1
    /\ nShort' = IF chunk = SHORT_CHUNK THEN nShort + 1 ELSE nShort
    /\ received' = Recent(received, chunk)
    /\ UNCHANGED <<tfPc, size, barStopped>>
    /\ UNCHANGED <<busVars, lcVars, dropVars, cliVars, slackVars>>

\* A transform that keeps the chunk on which it updates the bar.
TransformSkipsOnUpdate(chunk) ==
    /\ tfPc = "open"
    /\ nChunks < MaxChunks
    /\ chunk = SHORT_CHUNK => nShort < MaxShort
    /\ bytesRead' = bytesRead + chunk
    /\ IF count + 1 = PROGRESS_INTERVAL
       THEN /\ barValue' = bytesRead'
            /\ count' = 0
            /\ nUpdates' = nUpdates + 1
            /\ UNCHANGED <<pushed, nPushed>>
       ELSE /\ count' = count + 1
            /\ pushed' = Recent(pushed, chunk)
            /\ nPushed' = nPushed + 1
            /\ UNCHANGED <<barValue, nUpdates>>
    /\ nChunks' = nChunks + 1
    /\ nShort' = IF chunk = SHORT_CHUNK THEN nShort + 1 ELSE nShort
    /\ received' = Recent(received, chunk)
    /\ UNCHANGED <<tfPc, size, barStopped>>
    /\ UNCHANGED <<busVars, lcVars, dropVars, cliVars, slackVars>>

\* transform(chunk, _, done), lines 134-144.
Transform(chunk) ==
    /\ tfPc = "open"
    /\ nChunks < MaxChunks
    /\ chunk = SHORT_CHUNK => nShort < MaxShort
    /\ bytesRead' = bytesRead + chunk
    /\ IF count + 1 = PROGRESS_INTERVAL
       THEN /\ barValue' = bytesRead'
            /\ count' = 0
            /\ nUpdates' = nUpdates + 1
       ELSE /\ count' = count + 1
            /\ UNCHANGED <<barValue, nUpdates>>
    /\ pushed' = Recent(pushed, chunk)
    /\ nPushed' = nPushed + 1
    /\ nChunks' = nChunks + 1
    /\ nShort' = IF chunk = SHORT_CHUNK THEN nShort + 1 ELSE nShort
    /\ received' = Recent(received, chunk)
    /\ UNCHANGED <<tfPc, size, barStopped>>
    /\ UNCHANGED <<busVars, lcVars, dropVars, cliVars, slackVars>>

\* flush(done), lines 145-150: the writable side was ended.
Flush ==
    /\ tfPc = "open"
    /\ tfPc' = "flushed"
    /\ barValue' = size
    /\ barStopped' = TRUE
    /\ UNCHANGED <<size, bytesRead, count, nChunks, nShort, nUpdates, received, pushed,
                   nPushed>>
    /\ UNCHANGED <<busVars, lcVars, dropVars, cliVars, slackVars>>

InitTransform ==
    /\ tfPc = "none"
    /\ size = 0
    /\ bytesRead = 0
    /\ count = 0
    /\ barValue = 0
    /\ barStopped = FALSE
    /\ nChunks = 0
    /\ nShort = 0
    /\ nUpdates = 0
    /\ received = <<>>
    /\ pushed = <<>>
    /\ nPushed = 0

Create == \E sz \in FileSizes : CreateTransformStream(sz)

Write == \E chunk \in Chunks : Transform(chunk)

NextTransform ==
    \/ Create
    \/ Write
    \/ Flush

StartBus == InitBus /\ LcIdle(0) /\ InitDrop /\ InitCli /\ InitSlack /\ InitTransform

StartLifecycle == InitBus /\ InitLifecycle /\ InitDrop /\ InitCli /\ InitSlack /\ InitTransform

SpecBus == StartBus /\ [][NextBus]_vars

SpecLifecycle == StartLifecycle /\ [][NextLifecycle]_vars

StartDrop == InitBus /\ LcIdle(0) /\ DropIdle(FIRST_CC) /\ InitCli /\ InitSlack /\ InitTransform

SpecDrop == StartDrop /\ [][NextDrop]_vars

StartCli == InitBus /\ LcIdle(0) /\ InitDrop /\ InitCli /\ InitSlack /\ InitTransform

SpecCli == StartCli /\ [][NextCli]_vars

\* What the event loop and the collaborators guarantee: a settled promise's
\* continuation runs, the read stream ends or fails, start() and stop() settle,
\* and getResult() settles once the consumer that start() set up has seen the end
\* of the input.  Nothing makes getResult() settle for a checker that never started.
FairCli ==
    /\ WF_vars(NewDropCheck)
    /\ WF_vars(Run)
    /\ WF_vars(OnReadEnd \/ OnReadError)
    /\ WF_vars(StartPromise)
    /\ WF_vars(StopPromise)
    /\ WF_vars(startP = "resolved" /\ GetResultPromise)
    /\ WF_vars(FloatingStopPromise)
    /\ WF_vars(RunRejected)
    /\ WF_vars(ProcessEnds)

StartSlack == InitBus /\ LcIdle(0) /\ InitDrop /\ InitCli /\ InitSlack /\ InitTransform

SpecSlack == StartSlack /\ [][NextSlack]_vars

StartTransform == InitBus /\ LcIdle(0) /\ InitDrop /\ InitCli /\ InitSlack /\ InitTransform

SpecTransform == StartTransform /\ [][NextTransform]_vars

SpecCliLive == StartCli /\ [][NextCli]_vars /\ FairCli

\* The same, granting in addition that getResult() always settles.
SpecCliSettling == StartCli /\ [][NextCli]_vars /\ FairCli /\ WF_vars(GetResultPromise)

(***************************************************************************)
(* Claims about the event bus.                                             *)
(***************************************************************************)
\* The listeners registered for emit e's kind when the call was made.
RegsOf(e) == {emits[e].regs[i] : i \in DOMAIN emits[e].regs}

\* The callback invocations of emit e that have begun.
StartedOf(e) == {started[i].l : i \in {j \in DOMAIN started : started[j].e = e}}

\* C1: a listener's failure (a synchronous throw, a rejected promise) is caught and
\* logged by its wrapper: no emit* call throws into the emitter, no wrapper promise
\* rejects, a failed wrapper that has finished has logged the failure, nothing is
\* logged but a failure, and an emit* call that has returned has called every
\* listener registered for its kind, the ones after a failing listener included.
ListenerFailureIsolated ==
    /\ threw = {}
    /\ unhandled = {}
    /\ \A t \in failedCb : t \in finished => t \in logged
    /\ logged \subseteq failedCb
    /\ \A e \in returned : RegsOf(e) \subseteq StartedOf(e)
    /\ (busPc = "idle" /\ micro = <<>>) => failedCb \subseteq logged

\* C1 witness: an emit* call has returned although a listener failed and was
\* logged, and a listener registered after the failing one was called too.
FailureIsolatedWitness ==
    \E i, j \in DOMAIN started :
        /\ i < j
        /\ started[i].e = started[j].e
        /\ started[i].e \in returned
        /\ started[i] \in failedCb \cap logged
        /\ started[j] \in finished

\* C2: within one emit the callbacks begin in registration order (a wrapper's
\* identity is the rank of its set* call).
DispatchInRegistrationOrder ==
    \A i, j \in DOMAIN started :
        (i < j /\ started[i].e = started[j].e) => started[i].l < started[j].l

\* C2 witness: one emit has called two listeners registered for its kind.
RegistrationOrderWitness ==
    \E i, j \in DOMAIN started : i < j /\ started[i].e = started[j].e

\* C3: emit* does not await its listeners: the handling of a listener that
\* suspends completes only after the emit* call has returned, and a returned
\* call leaves the suspended handling pending.
EmitDoesNotAwaitListeners ==
    \A t \in finished \cup pendingCb :
        t.cb = "suspend" =>
            /\ t \in finished => t.e \in returned
            /\ (t \in pendingCb /\ busPc # "emit") => t.e \in returned

\* C3 witness: the emit* call has returned to the emitter while a listener's
\* handling is still suspended.
EmitReturnedWhilePendingWitness ==
    \E t \in pendingCb : t.e \in returned /\ t \notin finished

\* C4 as stated: no callback body begins before its emit* call has returned.
CallbackOnlyAfterEmitReturns ==
    \A i \in DOMAIN started : started[i].e \in returned

\* C4 amended: a callback is called synchronously inside emit*: when the call
\* returns, every listener registered for the kind has had its callback begun;
\* what runs after the return is only what follows a suspension: the wrapper's
\* continuation after its await (with the logging of a rejected promise).
CallbackStartsInsideEmit ==
    /\ \A e \in returned : RegsOf(e) \subseteq StartedOf(e)
    /\ \A t \in finished : t.cb \in {"return", "reject"} => t.e \in returned
    /\ \A t \in logged : t.cb = "reject" => t.e \in returned

\* C4 witness: a callback body has begun while its emit* call is still in progress.
CallbackInsideEmitWitness ==
    /\ busPc = "emit"
    /\ \E i \in DOMAIN started : started[i].e = cur.id

(***************************************************************************)
(* Claims about the lifecycle.                                             *)
(***************************************************************************)
\* No StartPrep follows a RetryOver in a reservation's event history.
NoPrepAfterRetryOver(r) ==
    \A i, j \in DOMAIN lcEvents[r] :
        (lcEvents[r][i] = RECORDING_RETRY_OVER_EVENT /\ i < j)
            => lcEvents[r][j] # START_PREP_RRECORDING_EVENT

\* C5: retry exhaustion: RetryOver is emitted at most once for a reservation and no
\* StartPrep follows it; it is emitted exactly when the reservation is in RetryOver,
\* which it enters with its counter equal to the configured maximum, after
\* maximum + 1 failed attempts, each begun by one StartPrep.
RetryExhaustion ==
    \A r \in Reservations :
        /\ CountOf(r, RECORDING_RETRY_OVER_EVENT) <= 1
        /\ NoPrepAfterRetryOver(r)
        /\ retryCount[r] <= maxRetry
        /\ (lcState[r] = "RetryOver") <=> (CountOf(r, RECORDING_RETRY_OVER_EVENT) = 1)
        /\ lcState[r] = "RetryOver" =>
              /\ retryCount[r] = maxRetry
              /\ CountOf(r, RECORDING_FAILED_EVENT) = maxRetry + 1
              /\ CountOf(r, START_PREP_RRECORDING_EVENT) = maxRetry + 1

\* C5 witness: a reservation has failed on every attempt of a maximum of at least
\* two retries and RetryOver has been emitted for it.
RetryExhaustionWitness ==
    \E r \in Reservations :
        /\ maxRetry >= 2
        /\ lcState[r] = "RetryOver"
        /\ CountOf(r, RECORDING_RETRY_OVER_EVENT) = 1

\* C6: the step PrepPending -> PrepFailed emits PrepFailed and leaves the retry
\* counter as it was; the counter changes only on Failed -> RetryPending, by one,
\* and only from a value below the configured maximum.
AcquisitionFailureKeepsRetries ==
    [][\A r \in Reservations :
          /\ (lcState[r] = "PrepPending" /\ lcState'[r] = "PrepFailed") =>
                /\ retryCount'[r] = retryCount[r]
                /\ lcEvents'[r] = Append(lcEvents[r], PREP_RECORDING_FAILED_EVENT)
          /\ retryCount'[r] # retryCount[r] =>
                /\ lcState[r] = "Failed"
                /\ lcState'[r] = "RetryPending"
                /\ retryCount[r] < maxRetry
                /\ retryCount'[r] = retryCount[r] + 1]_vars

\* C6 witness: an acquisition failure on a retried attempt: the reservation is in
\* PrepFailed, PrepFailed was the last primary event, and the counter still holds
\* the one retry made before.
AcquisitionFailureWitness ==
    \E r \in Reservations :
        /\ lcState[r] = "PrepFailed"
        /\ retryCount[r] = 1
        /\ CountOf(r, RECORDING_FAILED_EVENT) = 1
        /\ CountOf(r, PREP_RECORDING_FAILED_EVENT) = 1

\* C7: a reservation has at most one live RecordingSession, a session is live
\* only while the reservation is recording, and a step that creates a session for
\* a reservation starts from a state in which it has none alive.
OneLiveSession ==
    /\ [](\A r \in Reservations :
            /\ Cardinality(sessions[r]) <= 1
            /\ sessions[r] # {} => lcState[r] = "Recording")
    /\ [][\A r \in Reservations :
            nSessions'[r] # nSessions[r] => sessions[r] = {}]_vars

\* C7 witness: a second session of a reservation is alive, created by a retry
\* after the first one ended in Failed.
SecondSessionWitness ==
    \E r \in Reservations :
        /\ nSessions[r] = 2
        /\ sessions[r] = {2}
        /\ CountOf(r, RECORDING_FAILED_EVENT) = 1

(***************************************************************************)
(* Claims about the drop accounting.                                       *)
(***************************************************************************)
\* C8 as stated: once a channel's gaps are closed, its drop count is the number of
\* payload frames it lost, whatever the length k of a gap.
DropCountIsMissingFrames ==
    \A p \in Pids : pendingLoss[p] = 0 => dropCount[p] = lostTotal[p]

\* C8 amended: the drop count of a channel is the number of payload frames it
\* lost as long as no gap is longer than 14 frames (a jump of the counter by
\* k + 1 <= 15); in particular it is 0 for a channel that lost none.
DropCountIsMissingFramesUpTo14 ==
    \A p \in Pids :
        (pendingLoss[p] = 0 /\ ~wideGap[p]) => dropCount[p] = lostTotal[p]

\* C8 witness: a gap of 14 frames has been closed and charged 14 drops.
FourteenMissingWitness ==
    \E p \in Pids :
        /\ pendingLoss[p] = 0
        /\ ~wideGap[p]
        /\ lostTotal[p] = MAX_COUNTED_GAP
        /\ dropCount[p] = MAX_COUNTED_GAP
        /\ last.f.pid = p
        /\ Gap(last.exp, last.f.cc) = MAX_COUNTED_GAP

\* C9: a payload-bearing frame without the discontinuity indicator whose counter
\* equals the channel's previously observed counter leaves the channel's drop
\* count as it was.
DuplicateNotCharged ==
    (/\ last.exp # -1
     /\ HasPayload(last.f)
     /\ ~Discontinuity(last.f)
     /\ last.f.cc = last.exp) => dropCount[last.f.pid] = last.drop

\* C9 witness: a duplicate has been analysed on a channel already charged drops.
DuplicateWitness ==
    /\ last.exp # -1
    /\ HasPayload(last.f)
    /\ ~Discontinuity(last.f)
    /\ last.f.cc = last.exp
    /\ last.drop > 0

(***************************************************************************)
(* Claims about the command line tool.                                     *)
(***************************************************************************)
\* The entries of the trace that are t.
Occurs(t) == {i \in DOMAIN trace : trace[i] = t}

\* C10 as stated: once readableStream has emitted 'error', the completion message
\* and the totals are never printed, and a process that has ended has printed
\* the failure diagnostic of run() and has ended by process.exit(1).
ReadErrorIsDiagnosed ==
    src = "errored" =>
        /\ Occurs("log:done") = {}
        /\ Occurs("log:totals") = {}
        /\ ~Alive =>
              /\ exitCode = 1
              /\ Occurs("err:check-failed") # {}
              /\ trace[Len(trace)] = "exit(1)"

\* A diagnostic of run() is on the error channel.
Diagnosed == Occurs("err:check-failed") \cup Occurs("err:release-failed") # {}

\* C11 as stated: whenever the promise of checker.start() has rejected, the run
\* goes on to print a failure diagnostic and to exit with code 1.
StartFailureLeadsToExit == (startP = "rejected") ~> (exitCode = 1 /\ Diagnosed)

\* C12 as stated: a run in which getResult() rejected, or in which the stop() of
\* the release step rejected, has printed the release/result failure diagnostic
\* and has exit code 1 when the process has ended.
ReleaseFailureIsSurfaced ==
    (~Alive /\ (Occurs("getResult:rejected") # {} \/ floatStop = "rejected")) =>
        /\ exitCode = 1
        /\ Occurs("err:release-failed") # {}

\* The trace ends with the release of a catch block: stop() attempted and settled
\* either way, the transform stream ended and unpiped, the read stream closed,
\* process.exit(1).
EndsWithOrderedRelease ==
    LET n == Len(trace) IN
    /\ n >= 6
    /\ trace[n - 5] = "stop()"
    /\ trace[n - 4] \in {"stop:resolved", "stop:rejected"}
    /\ SubSeq(trace, n - 3, n) = ReleaseAndExit

\* C13 as stated: a process that has exited non-zero after run() began has
\* released its resources in order before the exit.
FatalExitReleasesInOrder ==
    (~Alive /\ exitCode # 0 /\ Occurs("log:start") # {}) => EndsWithOrderedRelease

\* What holds of the two catch blocks of run(): a process that has called
\* process.exit(1) after run() began has released its resources in order.
CatchBlocksReleaseInOrder ==
    (Occurs("exit(1)") # {} /\ Occurs("log:start") # {}) => EndsWithOrderedRelease

CatchBlockReleaseWitness ==
    /\ cliPc = "exited"
    /\ Occurs("stop:rejected") # {}
    /\ Occurs("err:check-failed") # {}

\* C14: getResult() is invoked once, by the step in which the read stream emits
\* 'end', in a run whose first promise resolved and that printed no failure of
\* the first phase; and every stop() follows a resolved getResult() or the
\* diagnostic of a catch block.
GetResultOnlyAfterEnd ==
    /\ [](Occurs("getResult()") # {} =>
             /\ Cardinality(Occurs("getResult()")) = 1
             /\ p1 = "resolved"
             /\ src \in {"ended", "closed"}
             /\ Occurs("err:check-failed") = {})
    /\ [](\A i \in Occurs("stop()") :
             /\ i > 1
             /\ trace[i - 1] \in {"getResult:resolved", "err:check-failed",
                                  "err:release-failed"})
    /\ [][Occurs("getResult()")' # Occurs("getResult()") =>
             /\ src = "open"
             /\ src' = "ended"]_vars

GetResultAfterEndWitness ==
    /\ cliPc = "done"
    /\ src = "closed"
    /\ \E i \in Occurs("getResult()"), j \in Occurs("stop()") : i < j

(***************************************************************************)
(* Claims about the webhook message.                                       *)
(***************************************************************************)
\* The message carries the urgent markers.
Urgent(m) == m.here /\ m.resultHead = ":warning: " /\ m.textHead = "[!] "

\* The message carries none of the urgent markers.
Calm(m) == ~m.here /\ m.resultHead # ":warning: " /\ m.textHead # "[!] "

AnyNonZero(r) ==
    \/ Total(r, "error") # Zero
    \/ Total(r, "drop") # Zero
    \/ Total(r, "scrambling") # Zero

\* C15 as stated: the message built from a result carries the urgent markers if
\* some total is not zero, and none of them otherwise.
UrgentIffNonZero ==
    payload # NoPayload =>
        IF AnyNonZero(dropResult) THEN Urgent(payload) ELSE Calm(payload)

(***************************************************************************)
(* Further claims about the command line tool.                             *)
(***************************************************************************)
\* C16: at most one POST is issued, only with the slack flag, only right after
\* the totals were printed following a resolved getResult(), with no failure
\* before it; and a run that printed a failure diagnostic has issued none.
SinglePostAfterTotals ==
    /\ Cardinality(Occurs("post")) <= 1
    /\ \A i \in Occurs("post") :
          /\ isPostToSlack
          /\ i > 1
          /\ trace[i - 1] = "log:totals"
          /\ \E j \in 1..(i - 1) : trace[j] = "getResult:resolved"
          /\ \A j \in 1..(i - 1) :
                trace[j] \notin {"err:usage", "err:check-failed", "err:release-failed",
                                 "err:uncaught", "getResult:rejected", "request:throw"}
    /\ Diagnosed => Occurs("post") = {}

SinglePostWitness ==
    /\ cliPc = "finished"
    /\ Cardinality(Occurs("post")) = 1

(***************************************************************************)
(* Claims about the progress transform.                                    *)
(***************************************************************************)
\* C17: transform() updates the bar once per PROGRESS_INTERVAL chunks and resets
\* its counter; each such update reports the bytes consumed so far and never
\* less than the bar showed; flush sets the bar to the file size and stops it.
ProgressEveryHundredChunks ==
    /\ [](/\ count = nChunks % PROGRESS_INTERVAL
          /\ nUpdates = nChunks \div PROGRESS_INTERVAL
          /\ tfPc = "flushed" => (barValue = size /\ barStopped)
          /\ tfPc = "open" => ~barStopped)
    /\ [][IF nUpdates' # nUpdates
           THEN /\ nUpdates' = nUpdates + 1
                /\ barValue' = bytesRead'
                /\ barValue' >= barValue
                /\ count' = 0
           ELSE nChunks' # nChunks => barValue' = barValue]_vars

ProgressWitness ==
    /\ tfPc = "flushed"
    /\ nUpdates = 2
    /\ nShort > 0
    /\ count > 0
    /\ bytesRead # size

\* C20: every chunk handed to transform() has been pushed downstream once, as it
\* was and in order, and passing a chunk leaves the bar's state alone unless the
\* chunk is the one on which the bar is updated.
PassThrough ==
    /\ [](nPushed = nChunks /\ pushed = received)
    /\ [][IF nChunks' # nChunks
           THEN /\ nPushed' = nPushed + 1
                /\ pushed' = Recent(pushed, received'[Len(received')])
                /\ UNCHANGED <<tfPc, size, barStopped>>
           ELSE UNCHANGED <<pushed, nPushed>>]_vars

PassThroughOnUpdateWitness ==
    /\ nChunks = PROGRESS_INTERVAL
    /\ nUpdates = 1
    /\ nPushed = nChunks
    /\ pushed = <<SHORT_CHUNK, FULL_CHUNK>>

(***************************************************************************)
(* Further claims about the event bus.                                     *)
(***************************************************************************)
\* The identities of the listeners registered for kind k.
IdsOf(k) == {listeners[k][i].id : i \in DOMAIN listeners[k]}

\* The callback invocations of emit e on listener l.
CallsOf(e, l) == {j \in DOMAIN started : started[j].e = e /\ started[j].l = l}

\* C18: an emit calls only listeners that were registered for its kind when it
\* was made, each at most once and with the emitted arguments, never a listener
\* of another kind or one registered later; an emit that is over has returned
\* and has called each of them exactly once.
ExactlyOnceDelivery ==
    \A e \in DOMAIN emits :
        /\ \A j \in DOMAIN started :
              started[j].e = e =>
                  /\ started[j].l \in RegsOf(e)
                  /\ started[j].arg = emits[e].arg
        /\ RegsOf(e) \subseteq IdsOf(emits[e].kind)
        /\ \A k \in Kinds \ {emits[e].kind} : IdsOf(k) \cap StartedOf(e) = {}
        /\ \A l \in RegsOf(e) : Cardinality(CallsOf(e, l)) <= 1
        /\ cur.id # e =>
              /\ e \in returned
              /\ \A l \in RegsOf(e) : Cardinality(CallsOf(e, l)) = 1

KindIsolationWitness ==
    \E e \in returned :
        /\ RegsOf(e) = {2}
        /\ StartedOf(e) = {2}
        /\ \E k \in Kinds \ {emits[e].kind} : IdsOf(k) = {1}

NoReplayWitness ==
    \E e \in returned :
        /\ RegsOf(e) = {1}
        /\ StartedOf(e) = {1}
        /\ IdsOf(emits[e].kind) = {1, 2}
        /\ busPc = "idle"
        /\ micro = <<>>

(***************************************************************************)
(* Termination of the command line tool.                                   *)
(***************************************************************************)
\* The run has printed the completion message and the totals.
Completed == Occurs("log:done") # {} /\ Occurs("log:totals") # {}

\* The run has called process.exit(1) after a diagnostic of its own.
FailedWithDiagnostic ==
    /\ Occurs("exit(1)") # {}
    /\ Occurs("err:usage") \cup Occurs("err:check-failed") \cup Occurs("err:release-failed") # {}

\* C19 as stated: every run eventually prints the completion message with the
\* totals or calls process.exit(1) after a failure diagnostic.
RunTerminates == <>(Completed \/ FailedWithDiagnostic)

====
